---------------------------- MODULE Spec2Model ----------------------------
(***************************************************************************)
(* The assessment attempt session of the curriculum application: the page  *)
(* component AssessmentAnswerPage (src/unnamed/part_000), its React state, *)
(* its timer effect and its handlers, together with the environment it     *)
(* talks to (link validity query, start / save / submit mutations, the     *)
(* wall clock).                                                            *)
(*                                                                         *)
(* One action is one handler, one timer callback or one completion of an   *)
(* awaited request.  Every action ends with the commit React performs      *)
(* after the state updates of that handler: the render, and the timer      *)
(* effect when one of its dependencies changed.                            *)
(*                                                                         *)
(* The handlers carry their own isTimeUp tests, so they are entry points   *)
(* of the model whenever the assessment has been started; the submit       *)
(* handler has none, its gate is the button that calls it.  The clock is   *)
(* the client's wall clock: it moves between a few instants, forward and,  *)
(* when it is adjusted, backward.  Leaving or reloading the page discards  *)
(* the component state; the backend keeps the attempt.                     *)
(***************************************************************************)
EXTENDS Integers, Sequences, FiniteSets, TLC

-----------------------------------------------------------------------------
(* Bounds of the model *)

\* auto-save requests that may be in flight at once
MaxInFlight == 1
\* the count of expiry events saturates here
MaxFired == 2
\* saveAnswers calls that may be in flight at once when edits overlap
MaxOverlap == 2
\* calls of handleNext and handlePrevious made in a row
MaxWalk == 4

(* Program constants *)

\* setInterval(updateTimer, 1000)
TickMs == 1000
\* Math.ceil(remaining / 1000)
MsPerSecond == 1000
\* assessment.duration * 60 * 1000
MsPerMinute == 60 * 1000

\* the instants, in milliseconds, at which the model looks at the system: the
\* origin, half a second before a one-minute duration started at the origin
\* ends, its end, and a second past it
Instants == {0, 59500, 60000, 61000}

-----------------------------------------------------------------------------
(* Values *)

None == [kind |-> "none"]

Undefined == [kind |-> "undefined", chars |-> <<>>]
JsNull == [kind |-> "null", chars |-> <<>>]
Str(cs) == [kind |-> "string", chars |-> cs]

Max(a, b) == IF a >= b THEN a ELSE b
\* a variant that rounds down (Math.floor)
FloorDiv(a, b) == a \div b

\* Math.ceil(a / b) for a >= 0, b > 0
CeilDiv(a, b) == (a + b - 1) \div b

RECURSIVE TrimLeft(_)
TrimLeft(cs) ==
  IF cs # <<>> /\ Head(cs) = " " THEN TrimLeft(Tail(cs)) ELSE cs

RECURSIVE TrimRight(_)
TrimRight(cs) ==
  IF cs # <<>> /\ cs[Len(cs)] = " " THEN TrimRight(SubSeq(cs, 1, Len(cs) - 1)) ELSE cs

\* String.prototype.trim
Trim(cs) == TrimRight(TrimLeft(cs))

RECURSIVE SumLens(_)
SumLens(ss) == IF ss = <<>> THEN 0 ELSE Len(Head(ss)) + SumLens(Tail(ss))

RECURSIVE Flatten(_)
Flatten(ss) == IF ss = <<>> THEN <<>> ELSE Head(ss) \o Flatten(Tail(ss))

SeqRange(s) == {s[i] : i \in 1..Len(s)}

-----------------------------------------------------------------------------
(* The assessments the link may carry: sections are sequences of question  *)
(* ids, in order.                                                          *)

Assessments ==
  { [timed |-> TRUE,  duration |-> 1, sections |-> << <<"q1">>, <<"q2">> >>],
    [timed |-> FALSE, duration |-> 0, sections |-> << <<"q1">>, <<>>, <<"q2">> >>],
    [timed |-> TRUE,  duration |-> 1, sections |-> << <<>> >>] }

\* an answer as the page holds it (AssessmentAnswer)
Answer(q, sel, txt) ==
  [assessmentEntryId |-> q, selectedChoiceIds |-> sel, textAnswer |-> txt]

\* what the question card hands to onChange for question q: "q1" is a choice
\* question (a selection, or the selection cleared), "q2" a free-text question
\* (a text, or a blank one)
AnswerInputs(q) ==
  IF q = "q1"
    THEN { Answer(q, <<"c1">>, Undefined), Answer(q, <<>>, Undefined) }
    ELSE { Answer(q, <<>>, Str(<<"a">>)), Answer(q, <<>>, Str(<<" ">>)) }

\* a choice object as the backend returns it
Choice(c) == [id |-> c, choiceText |-> "t", choiceImageUrl |-> "null", isCorrect |-> "null"]

\* an answer as the backend returns it; choices is None when selectedChoices is absent
SavedAnswer(q, choices, txt) ==
  [assessmentEntryId |-> q, selectedChoices |-> choices, textAnswer |-> txt]

Choices(cs) == [kind |-> "array", items |-> cs]

\* the answer lists a resumed attempt may carry for an assessment
PriorAnswerLists(a) ==
  LET qs == Flatten(a.sections) IN
  IF qs = <<>> THEN { <<>> }
  ELSE { <<>>,
         << SavedAnswer(qs[1], Choices(<<Choice("c1"), Choice("c2")>>), JsNull) >>,
         << SavedAnswer(qs[Len(qs)], None, Str(<<"a">>)) >>,
         << SavedAnswer(qs[1], Choices(<<Choice("c1"), Choice("c2")>>), JsNull),
            SavedAnswer(qs[Len(qs)], None, Str(<<"a">>)) >> }


-----------------------------------------------------------------------------
(* State *)

VARIABLES
  assessment,            \* validityData.assessmentLink.assessment
  validity,              \* the link validity query: "pending", "valid", "invalid"
  assessmentAttempt,     \* useState<AssessmentAttempt | null>(null)
  currentSectionIndex,   \* useState(0)
  currentQuestionIndex,  \* useState(0)
  answers,               \* useState<Record<string, AssessmentAnswer>>({})
  isStarted,             \* useState(false)
  timeRemaining,         \* useState<number | null>(null)
  isTimeUp,              \* useState(false)
  timer,                 \* the interval of the timer effect and what its closure captured
  startPending,          \* startAssessmentMutation.isPending
  submitPending,         \* submitAssessmentMutation.isPending
  savesInFlight,         \* payloads of the saveAnswers calls not yet settled
  page,                  \* "mounted", or how the page was left: "submitted", "exited"
  server,                \* the attempt as the backend holds it
  now,                   \* Date.now(), in milliseconds
  expiryFired,           \* how often the time-up notice was raised in this session
  lastOp,                \* the handler or callback that ran last
  navFrom,               \* the cursor that handler found, when it was next, previous or jumpTo
  lastAnswer,            \* when it was handleAnswerChange: the answer it was passed, the payload
                         \* it sent, and whether it ran right after a saveAnswers call had failed
  returned,              \* when it was a successful start: result.assessmentAttempt.assessmentAnswers
  walk                   \* the calls of handleNext and handlePrevious made in a row from a
                         \* known cursor, each with the cursor it left (kept by CursorSpec only)

vars ==
  << assessment, validity, assessmentAttempt, currentSectionIndex,
     currentQuestionIndex, answers, isStarted, timeRemaining, isTimeUp, timer,
     startPending, submitPending, savesInFlight, page, server, now,
     expiryFired, lastOp, navFrom, lastAnswer, returned, walk >>

\* timeRemaining = null
TimeNull == -1

Unarmed ==
  [armed |-> FALSE, endTime |-> 0, closureTimeUp |-> FALSE, elapsed |-> 0,
   intervals |-> 0]

EmptyAnswers == [q \in {} |-> None]

NoAttempt == [started |-> FALSE, startedAt |-> 0, submitted |-> FALSE]

-----------------------------------------------------------------------------
(* Derived values of a render *)

TotalQuestionsOf(a) == SumLens(a.sections)

totalQuestions == TotalQuestionsOf(assessment)

answeredQuestions == Cardinality(DOMAIN answers)

\* a variant without the totalQuestions > 0 conjunct
allQuestionsAnsweredAnyTotal == answeredQuestions = totalQuestions

allQuestionsAnswered == answeredQuestions = totalQuestions /\ totalQuestions > 0

\* assessment?.sections[currentSectionIndex] is defined
HasCurrentSection ==
  currentSectionIndex >= 0 /\ currentSectionIndex < Len(assessment.sections)

\* currentSection?.questions[currentQuestionIndex] is defined
HasCurrentQuestion ==
  /\ HasCurrentSection
  /\ currentQuestionIndex >= 0
  /\ currentQuestionIndex < Len(assessment.sections[currentSectionIndex + 1])

currentQuestion ==
  assessment.sections[currentSectionIndex + 1][currentQuestionIndex + 1]

\* the submit button is rendered: the page is past the start screen, not on the
\* time-up screen, and the main question area is shown
SubmitShown == isStarted /\ ~isTimeUp /\ HasCurrentQuestion

SubmitDisabled == submitPending \/ isTimeUp \/ ~allQuestionsAnswered

\* a variant of the predicate that looks at the selection first and at the
\* text only when nothing is selected
IsCompleteAnswerChoicesFirst(ans) ==
  \/ Len(ans.selectedChoiceIds) > 0
  \/ /\ ans.textAnswer.kind \notin {"undefined", "null"}
     /\ Len(Trim(ans.textAnswer.chars)) > 0

\* the predicate of the validAnswers filter
IsCompleteAnswer(ans) ==
  IF ans.textAnswer.kind \notin {"undefined", "null"}
    THEN Len(Trim(ans.textAnswer.chars)) > 0
    ELSE Len(ans.selectedChoiceIds) > 0

\* a variant that takes the first complete answer (find) instead of all of
\* them (filter)
ValidAnswersFirstOnly(store) ==
  LET ids == { k \in DOMAIN store : IsCompleteAnswer(store[k]) }
  IN IF ids = {} THEN {} ELSE { store[CHOOSE q \in ids : TRUE] }

ValidAnswers(store) ==
  { store[q] : q \in { k \in DOMAIN store : IsCompleteAnswer(store[k]) } }

\* a variant that builds the new store from the new answer alone, without
\* the spread of the answers held
WithAnswerAlone(store, questionId, answer) ==
  [q \in {questionId} |-> answer]

\* a variant that merges the new answer into the entry it finds: a field the
\* new answer leaves undefined keeps its previous value
WithAnswerMerging(store, questionId, answer) ==
  [q \in DOMAIN store \cup {questionId} |->
     IF q # questionId THEN store[q]
     ELSE IF questionId \in DOMAIN store /\ answer.textAnswer = Undefined
       THEN [answer EXCEPT !.textAnswer = store[questionId].textAnswer]
     ELSE answer]

\* { ...answers, [questionId]: answer }
WithAnswer(store, questionId, answer) ==
  [q \in DOMAIN store \cup {questionId} |->
     IF q = questionId THEN answer ELSE store[q]]

\* a variant that reads the returned answer as if it had the page's shape
\* already: answer.selectedChoiceIds is undefined on a backend answer, so
\* `answer.selectedChoiceIds || []` is empty whatever was selected
RestoreAnswerUntranslated(saved) ==
  Answer(saved.assessmentEntryId,
         <<>>,
         IF saved.textAnswer.kind = "string" /\ saved.textAnswer.chars # <<>>
           THEN saved.textAnswer
           ELSE Undefined)

\* backend format -> frontend format
RestoreAnswer(saved) ==
  Answer(saved.assessmentEntryId,
         IF saved.selectedChoices.kind = "array"
           THEN [i \in 1..Len(saved.selectedChoices.items) |->
                   saved.selectedChoices.items[i].id]
           ELSE <<>>,
         IF saved.textAnswer.kind = "string" /\ saved.textAnswer.chars # <<>>
           THEN saved.textAnswer
           ELSE Undefined)

\* a variant of the restore that files each returned answer under its
\* position in the returned list instead of its question id
RestoredAnswersByPosition(list) ==
  [k \in {<<"0", "1">>[i] : i \in 1..Len(list)} |->
     RestoreAnswer(list[CHOOSE i \in 1..Len(list) : <<"0", "1">>[i] = k])]

\* forEach over the returned answers; a later entry of the same id overwrites
RestoredAnswers(list) ==
  [q \in {list[i].assessmentEntryId : i \in 1..Len(list)} |->
     LET last == CHOOSE i \in 1..Len(list) :
                   /\ list[i].assessmentEntryId = q
                   /\ \A j \in 1..Len(list) :
                        list[j].assessmentEntryId = q => j <= i
     IN RestoreAnswer(list[last])]

-----------------------------------------------------------------------------
(* The timer effect.  A "view" v = [tu, tr, fired] holds isTimeUp,          *)
(* timeRemaining and the count of time-up notices while a commit is being  *)
(* computed.                                                               *)

View == [tu |-> isTimeUp, tr |-> timeRemaining, fired |-> expiryFired]

\* if (assessmentAttempt?.startedAt && assessment?.timed && !isTimeUp)
\* a variant of the condition without the assessment?.timed conjunct
ArmCondIgnoringTimed(att, tu) == att # None /\ ~tu

\* a variant of the condition without the !isTimeUp conjunct
ArmCondIgnoringTimeUp(att, tu) == att # None /\ assessment.timed

\* the condition under which the effect arms the interval
ArmCond(att, tu) == att # None /\ assessment.timed /\ ~tu

\* a variant that anchors the end of the attempt at the time of arming
EndTimeFromNow(att) == now + assessment.duration * MsPerMinute

\* startTime + durationMs
EndTime(att) == att.startedAt + assessment.duration * MsPerMinute

\* a variant of the effect that returns no cleanup: the interval of a run is
\* never cleared
CleanupMissing(tm) == tm

\* the cleanup the effect returned when it armed: clearInterval(interval).
\* React calls it before the effect runs again and when the component
\* unmounts.
Cleanup(tm) == IF tm.armed THEN Unarmed ELSE tm

\* a variant of updateTimer that tests remaining < 0, which Math.max(0, ...)
\* never yields
UpdateTimerStrict(endTime, closureTimeUp, v) ==
  [tu |-> v.tu,
   tr |-> CeilDiv(Max(0, endTime - now), MsPerSecond),
   fired |-> v.fired]

\* updateTimer, with the endTime and the isTimeUp its closure captured
UpdateTimer(endTime, closureTimeUp, v) ==
  LET remaining == Max(0, endTime - now)
      expire == remaining <= 0 /\ ~closureTimeUp
  IN [tu |-> IF expire THEN TRUE ELSE v.tu,
      tr |-> CeilDiv(remaining, MsPerSecond),
      fired |-> IF expire /\ v.fired < MaxFired THEN v.fired + 1 ELSE v.fired]

\* a variant of the effect that derives isTimeUp from the remaining time on
\* every call instead of latching it, and arms whatever isTimeUp is
TimerEffectRecomputing(event, att, v, tm) ==
  LET upd(endTime) ==
        LET remaining == Max(0, endTime - now) IN
        [tu |-> remaining <= 0,
         tr |-> CeilDiv(remaining, MsPerSecond),
         fired |-> IF remaining <= 0 /\ ~v.tu /\ v.fired < MaxFired
                     THEN v.fired + 1 ELSE v.fired]
  IN IF event = "interval"
       THEN [v |-> upd(tm.endTime), tm |-> [tm EXCEPT !.elapsed = 0]]
     ELSE IF att # None /\ assessment.timed
       THEN [v |-> upd(EndTime(att)),
             tm |-> [armed |-> TRUE, endTime |-> EndTime(att),
                     closureTimeUp |-> v.tu, elapsed |-> 0,
                     intervals |-> Cleanup(tm).intervals + 1]]
     ELSE [v |-> v, tm |-> Cleanup(tm)]

\* The effect with its two entry points.  "commit": React runs the effect
\* because a dependency changed; the interval of the previous run has been
\* cleared by its cleanup, the body arms a new one and calls updateTimer once.
\* "interval": the interval of the last run calls updateTimer.
\* timer.intervals counts the intervals that were set and not cleared.
TimerEffect(event, att, v, tm) ==
  IF event = "interval"
    THEN [v |-> UpdateTimer(tm.endTime, tm.closureTimeUp, v),
          tm |-> [tm EXCEPT !.elapsed = 0]]
  ELSE IF ArmCond(att, v.tu)
    THEN [v |-> UpdateTimer(EndTime(att), v.tu, v),
          tm |-> [armed |-> TRUE, endTime |-> EndTime(att),
                  closureTimeUp |-> v.tu, elapsed |-> 0,
                  intervals |-> Cleanup(tm).intervals + 1]]
  ELSE [v |-> v, tm |-> Cleanup(tm)]

\* a variant of the dependency array that leaves isTimeUp out
TimerEffectDepsWithoutTimeUp(att, tu) == <<att, assessment>>

\* the dependency array of the effect
TimerEffectDeps(att, tu) == <<att, assessment, tu>>

\* The commit after a handler: the effect runs again while its dependencies
\* differ from those of its last run (setIsTimeUp inside the effect body
\* causes a second render).
Commit(oldDeps, att, v, tm) ==
  IF TimerEffectDeps(att, v.tu) = oldDeps
    THEN [v |-> v, tm |-> tm]
    ELSE LET r == TimerEffect("commit", att, v, tm) IN
         IF TimerEffectDeps(att, r.v.tu) = TimerEffectDeps(att, v.tu)
           THEN r
           ELSE TimerEffect("commit", att, r.v, r.tm)

\* the cleanup of the effect when the component unmounts: clearInterval
Unmount(tm) == Cleanup(tm)

-----------------------------------------------------------------------------
(* Initial state: the page has just been loaded for the first time *)

Init ==
  /\ assessment \in Assessments
  /\ validity = "pending"
  /\ assessmentAttempt = None
  /\ currentSectionIndex = 0
  /\ currentQuestionIndex = 0
  /\ answers = EmptyAnswers
  /\ isStarted = FALSE
  /\ timeRemaining = TimeNull
  /\ isTimeUp = FALSE
  /\ timer = Unarmed
  /\ startPending = FALSE
  /\ submitPending = FALSE
  /\ savesInFlight = <<>>
  /\ page = "mounted"
  /\ server = NoAttempt
  /\ now = 0
  /\ expiryFired = 0
  /\ lastOp = "load"
  /\ navFrom = None
  /\ lastAnswer = None
  /\ returned = <<>>
  /\ walk = <<>>

Mounted == page = "mounted"

Nav == <<currentSectionIndex, currentQuestionIndex>>
TimerState == <<timeRemaining, isTimeUp, timer, expiryFired>>
Requests == <<startPending, submitPending, savesInFlight>>

-----------------------------------------------------------------------------
(* The link validity query *)

ValidityOk ==
  /\ Mounted /\ validity = "pending"
  /\ validity' = "valid"
  /\ lastOp' = "validityOk"
  /\ navFrom' = None
  /\ lastAnswer' = None
  /\ returned' = <<>>
  /\ walk' = <<>>
  /\ UNCHANGED << assessment, assessmentAttempt, Nav, answers, isStarted,
                  TimerState, Requests, page, server, now >>

ValidityError ==
  /\ Mounted /\ validity = "pending"
  /\ validity' = "invalid"
  /\ lastOp' = "validityError"
  /\ navFrom' = None
  /\ lastAnswer' = None
  /\ returned' = <<>>
  /\ walk' = <<>>
  /\ UNCHANGED << assessment, assessmentAttempt, Nav, answers, isStarted,
                  TimerState, Requests, page, server, now >>

-----------------------------------------------------------------------------
(* handleStartAssessment *)

\* a variant in which the start screen is rendered whatever the validity
\* query says
StartClickUnchecked ==
  /\ Mounted /\ ~isStarted /\ ~startPending
  /\ startPending' = TRUE
  /\ lastOp' = "start"
  /\ navFrom' = None
  /\ lastAnswer' = None
  /\ returned' = <<>>
  /\ walk' = <<>>
  /\ UNCHANGED << assessment, validity, assessmentAttempt, Nav, answers,
                  isStarted, TimerState, submitPending, savesInFlight, page,
                  server, now >>

\* the start button of the pre-assessment screen
StartClick ==
  /\ Mounted /\ validity = "valid" /\ ~isStarted /\ ~startPending
  /\ startPending' = TRUE
  /\ lastOp' = "start"
  /\ navFrom' = None
  /\ lastAnswer' = None
  /\ returned' = <<>>
  /\ walk' = <<>>
  /\ UNCHANGED << assessment, validity, assessmentAttempt, Nav, answers,
                  isStarted, TimerState, submitPending, savesInFlight, page,
                  server, now >>

\* what startOrResumeAttempt answers: a new attempt started now, or the
\* attempt the backend already holds
AttemptResult ==
  [startedAt |-> IF server.started THEN server.startedAt ELSE now,
   attemptStatus |-> IF server.started THEN "IN_PROGRESS" ELSE "NOT_STARTED"]

\* a variant that stamps the attempt with the client's time of the start
AttemptFromRestamped(result) == [result EXCEPT !.startedAt = now]

\* setAssessmentAttempt(result.assessmentAttempt)
AttemptFrom(result) == result

\* a variant of the restore branch that adds the restored answers to the
\* store instead of replacing it: setAnswers({ ...answers, ...restoredAnswers })
AnswersAfterStartMerging(store, prior) ==
  IF Len(prior) > 0
    THEN [q \in DOMAIN store \cup DOMAIN RestoredAnswers(prior) |->
            IF q \in DOMAIN RestoredAnswers(prior)
              THEN RestoredAnswers(prior)[q] ELSE store[q]]
    ELSE store

\* the answers after the restore branch
AnswersAfterStart(store, prior) ==
  IF Len(prior) > 0 THEN RestoredAnswers(prior) ELSE store

StartOk ==
  /\ Mounted /\ startPending /\ ~server.submitted
  /\ \E prior \in (IF server.started THEN PriorAnswerLists(assessment) ELSE {<<>>}) :
       LET att == AttemptFrom(AttemptResult)
           r == Commit(TimerEffectDeps(assessmentAttempt, isTimeUp), att, View, timer)
       IN /\ assessmentAttempt' = att
          /\ answers' = AnswersAfterStart(answers, prior)
          /\ isStarted' = TRUE
          /\ isTimeUp' = r.v.tu
          /\ timeRemaining' = r.v.tr
          /\ expiryFired' = r.v.fired
          /\ timer' = r.tm
          /\ server' = [server EXCEPT !.started = TRUE,
                                      !.startedAt = AttemptResult.startedAt]
          /\ returned' = prior
          /\ walk' = <<>>
  /\ startPending' = FALSE
  /\ lastOp' = "startOk"
  /\ navFrom' = None
  /\ lastAnswer' = None
  /\ UNCHANGED << assessment, validity, Nav, submitPending, savesInFlight,
                  page, now >>

\* a variant with setIsStarted(true) after the try statement instead of
\* inside it: the page shows the assessment whether the start succeeded or not
StartErrorStarting ==
  /\ Mounted /\ startPending
  /\ startPending' = FALSE
  /\ isStarted' = TRUE
  /\ lastOp' = "startError"
  /\ navFrom' = None
  /\ lastAnswer' = None
  /\ returned' = <<>>
  /\ walk' = <<>>
  /\ UNCHANGED << assessment, validity, assessmentAttempt, Nav, answers,
                  TimerState, submitPending, savesInFlight, page,
                  server, now >>

\* the mutation rejects: console.error, the start screen stays
StartError ==
  /\ Mounted /\ startPending
  /\ startPending' = FALSE
  /\ lastOp' = "startError"
  /\ navFrom' = None
  /\ lastAnswer' = None
  /\ returned' = <<>>
  /\ walk' = <<>>
  /\ UNCHANGED << assessment, validity, assessmentAttempt, Nav, answers,
                  isStarted, TimerState, submitPending, savesInFlight, page,
                  server, now >>

-----------------------------------------------------------------------------
(* handleAnswerChange, called by the question card of the current question *)

\* a variant without the early return on isTimeUp
AnswersAfterChangeUnguarded(store, tu, questionId, answer) ==
  WithAnswer(store, questionId, answer)

\* the answers after handleAnswerChange(questionId, answer)
AnswersAfterChange(store, tu, questionId, answer) ==
  IF tu THEN store ELSE WithAnswer(store, questionId, answer)

\* a variant that does not send a payload equal to one still in flight
SavesAfterChangeCoalescing(saves, tu, updated) ==
  IF tu \/ ValidAnswers(updated) = {} \/ ValidAnswers(updated) \in SeqRange(saves)
    THEN saves
    ELSE Append(saves, ValidAnswers(updated))

\* the saveAnswers calls after handleAnswerChange left the store as updated
SavesAfterChange(saves, tu, updated) ==
  IF tu \/ ValidAnswers(updated) = {}
    THEN saves
    ELSE Append(saves, ValidAnswers(updated))

\* handleAnswerChange(currentQuestion.id, answer) for an answer of inputs,
\* with at most limit saveAnswers calls awaited
AnswerChange(limit, inputs) ==
  /\ Mounted /\ isStarted /\ HasCurrentQuestion
  /\ Len(savesInFlight) < limit
  /\ \E answer \in inputs :
       LET updated == AnswersAfterChange(answers, isTimeUp, currentQuestion, answer)
           saves == SavesAfterChange(savesInFlight, isTimeUp, updated)
       IN /\ answers' = updated
          /\ savesInFlight' = saves
          /\ lastAnswer' = [answer |-> answer,
                            sent |-> IF Len(saves) > Len(savesInFlight)
                                       THEN {saves[Len(saves)]} ELSE {},
                            afterSaveError |-> lastOp = "saveError"]
  /\ lastOp' = "answer"
  /\ navFrom' = None
  /\ returned' = <<>>
  /\ walk' = <<>>
  /\ UNCHANGED << assessment, validity, assessmentAttempt, Nav, isStarted,
                  TimerState, startPending, submitPending, page, server,
                  now >>

\* onChange of the question card
HandleAnswerChange == AnswerChange(MaxInFlight, AnswerInputs(currentQuestion))

Without(saves, i) == SubSeq(saves, 1, i - 1) \o SubSeq(saves, i + 1, Len(saves))

\* a saveAnswers call resolves; the calls settle in any order
SaveOk ==
  /\ Mounted
  /\ \E i \in 1..Len(savesInFlight) : savesInFlight' = Without(savesInFlight, i)
  /\ lastOp' = "saveOk"
  /\ navFrom' = None
  /\ lastAnswer' = None
  /\ returned' = <<>>
  /\ walk' = <<>>
  /\ UNCHANGED << assessment, validity, assessmentAttempt, Nav, answers,
                  isStarted, TimerState, startPending, submitPending, page,
                  server, now >>

\* a variant whose catch block takes the answers of the failed call back out
\* of the store
SaveErrorRollingBack ==
  /\ Mounted
  /\ \E i \in 1..Len(savesInFlight) :
       /\ savesInFlight' = Without(savesInFlight, i)
       /\ answers' =
            [q \in DOMAIN answers
                    \ {a.assessmentEntryId : a \in savesInFlight[i]} |-> answers[q]]
  /\ lastOp' = "saveError"
  /\ navFrom' = None
  /\ lastAnswer' = None
  /\ returned' = <<>>
  /\ walk' = <<>>
  /\ UNCHANGED << assessment, validity, assessmentAttempt, Nav,
                  isStarted, TimerState, startPending, submitPending, page,
                  server, now >>

\* a saveAnswers call rejects: console.error, nothing else
SaveError ==
  /\ Mounted
  /\ \E i \in 1..Len(savesInFlight) : savesInFlight' = Without(savesInFlight, i)
  /\ lastOp' = "saveError"
  /\ navFrom' = None
  /\ lastAnswer' = None
  /\ returned' = <<>>
  /\ walk' = <<>>
  /\ UNCHANGED << assessment, validity, assessmentAttempt, Nav, answers,
                  isStarted, TimerState, startPending, submitPending, page,
                  server, now >>

-----------------------------------------------------------------------------
(* Navigation *)

\* the (sectionIndex, questionIndex) pairs the sidebar passes
SidebarTargets ==
  { <<s, q>> \in (0..Len(assessment.sections) - 1) \X (0..1) :
      q < Len(assessment.sections[s + 1]) }

\* the cursor after navigateToQuestion(sectionIndex, questionIndex)
CursorAfterNavigate(cur, tu, sectionIndex, questionIndex) ==
  IF tu THEN cur ELSE <<sectionIndex, questionIndex>>

NavigateToQuestion ==
  /\ Mounted /\ isStarted
  /\ \E t \in SidebarTargets :
       LET c == CursorAfterNavigate(Nav, isTimeUp, t[1], t[2])
       IN currentSectionIndex' = c[1] /\ currentQuestionIndex' = c[2]
  /\ lastOp' = "jumpTo"
  /\ navFrom' = Nav
  /\ lastAnswer' = None
  /\ returned' = <<>>
  /\ walk' = <<>>
  /\ UNCHANGED << assessment, validity, assessmentAttempt, answers, isStarted,
                  TimerState, Requests, page, server, now >>

\* a variant of handleNext without the isTimeUp test
CursorAfterNextUnguarded(cur, tu) ==
  LET si == cur[1]
      qi == cur[2]
      hasSection == si >= 0 /\ si < Len(assessment.sections)
  IN IF ~hasSection THEN cur
     ELSE IF qi < Len(assessment.sections[si + 1]) - 1 THEN <<si, qi + 1>>
     ELSE IF si < Len(assessment.sections) - 1 THEN <<si + 1, 0>>
     ELSE cur

\* a variant of handleNext that keeps the question index when it enters the
\* next section (no setCurrentQuestionIndex(0))
CursorAfterNextKeepingIndex(cur, tu) ==
  LET si == cur[1]
      qi == cur[2]
      hasSection == si >= 0 /\ si < Len(assessment.sections)
  IN IF ~hasSection \/ tu THEN cur
     ELSE IF qi < Len(assessment.sections[si + 1]) - 1 THEN <<si, qi + 1>>
     ELSE IF si < Len(assessment.sections) - 1 THEN <<si + 1, qi>>
     ELSE cur

\* a variant of handleNext that compares the question index with the number of
\* questions instead of the last index
CursorAfterNextOffByOne(cur, tu) ==
  LET si == cur[1]
      qi == cur[2]
      hasSection == si >= 0 /\ si < Len(assessment.sections)
  IN IF ~hasSection \/ tu THEN cur
     ELSE IF qi < Len(assessment.sections[si + 1]) THEN <<si, qi + 1>>
     ELSE IF si < Len(assessment.sections) - 1 THEN <<si + 1, 0>>
     ELSE cur

\* the cursor after handleNext
CursorAfterNext(cur, tu) ==
  LET si == cur[1]
      qi == cur[2]
      hasSection == si >= 0 /\ si < Len(assessment.sections)
  IN IF ~hasSection \/ tu THEN cur
     ELSE IF qi < Len(assessment.sections[si + 1]) - 1 THEN <<si, qi + 1>>
     ELSE IF si < Len(assessment.sections) - 1 THEN <<si + 1, 0>>
     ELSE cur

\* handleNext; tracked: the call is added to the walk
NextCall(tracked) ==
  /\ Mounted /\ isStarted
  /\ LET c == CursorAfterNext(Nav, isTimeUp)
     IN /\ currentSectionIndex' = c[1] /\ currentQuestionIndex' = c[2]
        /\ walk' = IF tracked THEN Append(walk, [op |-> "next", at |-> c])
                              ELSE <<>>
  /\ lastOp' = "next"
  /\ navFrom' = Nav
  /\ lastAnswer' = None
  /\ returned' = <<>>
  /\ UNCHANGED << assessment, validity, assessmentAttempt, answers, isStarted,
                  TimerState, Requests, page, server, now >>

HandleNext == NextCall(FALSE)

\* a variant of handlePrevious that enters the previous section at its first
\* question
CursorAfterPreviousToFirst(cur, tu) ==
  LET si == cur[1]
      qi == cur[2]
  IN IF tu THEN cur
     ELSE IF qi > 0 THEN <<si, qi - 1>>
     ELSE IF si > 0 THEN <<si - 1, 0>>
     ELSE cur

\* the cursor after handlePrevious
CursorAfterPrevious(cur, tu) ==
  LET si == cur[1]
      qi == cur[2]
  IN IF tu THEN cur
     ELSE IF qi > 0 THEN <<si, qi - 1>>
     ELSE IF si > 0
       THEN LET n == Len(assessment.sections[si]) IN
            <<si - 1, (IF n # 0 THEN n ELSE 1) - 1>>
     ELSE cur

\* handlePrevious; tracked: the call is added to the walk
PreviousCall(tracked) ==
  /\ Mounted /\ isStarted
  /\ LET c == CursorAfterPrevious(Nav, isTimeUp)
     IN /\ currentSectionIndex' = c[1] /\ currentQuestionIndex' = c[2]
        /\ walk' = IF tracked THEN Append(walk, [op |-> "previous", at |-> c])
                              ELSE <<>>
  /\ lastOp' = "previous"
  /\ navFrom' = Nav
  /\ lastAnswer' = None
  /\ returned' = <<>>
  /\ UNCHANGED << assessment, validity, assessmentAttempt, answers, isStarted,
                  TimerState, Requests, page, server, now >>

HandlePrevious == PreviousCall(FALSE)

-----------------------------------------------------------------------------
(* Submission *)

\* a variant in which the submit button stays usable once the time is up
SubmitAcceptedAfterExpiry ==
  isStarted /\ HasCurrentQuestion /\ ~submitPending /\ allQuestionsAnswered

\* whether a click on the submit button reaches handleSubmit
SubmitAccepted == SubmitShown /\ ~SubmitDisabled

\* the submit button; handleSubmit awaits submitAssessmentMutation
SubmitClick ==
  /\ Mounted /\ isStarted
  /\ submitPending' = (submitPending \/ SubmitAccepted)
  /\ lastOp' = "submit"
  /\ navFrom' = None
  /\ lastAnswer' = None
  /\ returned' = <<>>
  /\ walk' = <<>>
  /\ UNCHANGED << assessment, validity, assessmentAttempt, Nav, answers,
                  isStarted, TimerState, startPending, savesInFlight, page,
                  server, now >>

\* the component unmounts: its state is discarded, the cleanup of the timer
\* effect runs, the requests still in flight are no longer awaited by anyone
Discard ==
  /\ validity' = "pending"
  /\ assessmentAttempt' = None
  /\ currentSectionIndex' = 0
  /\ currentQuestionIndex' = 0
  /\ answers' = EmptyAnswers
  /\ isStarted' = FALSE
  /\ timeRemaining' = TimeNull
  /\ isTimeUp' = FALSE
  /\ timer' = Unmount(timer)
  /\ startPending' = FALSE
  /\ submitPending' = FALSE
  /\ savesInFlight' = <<>>
  /\ expiryFired' = 0

\* the mutation resolves: router.push('/') leaves the page
SubmitOk ==
  /\ Mounted /\ submitPending
  /\ page' = "submitted"
  /\ server' = [server EXCEPT !.submitted = TRUE]
  /\ Discard
  /\ lastOp' = "submitOk"
  /\ navFrom' = None
  /\ lastAnswer' = None
  /\ returned' = <<>>
  /\ walk' = <<>>
  /\ UNCHANGED << assessment, now >>

\* a variant with router.push('/') after the try statement instead of inside
\* it: the page is left whether the mutation resolved or rejected
SubmitErrorLeaving ==
  /\ Mounted /\ submitPending
  /\ page' = "exited"
  /\ Discard
  /\ lastOp' = "submitError"
  /\ navFrom' = None
  /\ lastAnswer' = None
  /\ returned' = <<>>
  /\ walk' = <<>>
  /\ UNCHANGED << assessment, server, now >>

\* the mutation rejects: console.error, the page stays
SubmitError ==
  /\ Mounted /\ submitPending
  /\ submitPending' = FALSE
  /\ lastOp' = "submitError"
  /\ navFrom' = None
  /\ lastAnswer' = None
  /\ returned' = <<>>
  /\ walk' = <<>>
  /\ UNCHANGED << assessment, validity, assessmentAttempt, Nav, answers,
                  isStarted, TimerState, startPending, savesInFlight, page,
                  server, now >>

\* an exit button (invalid-link screen, time-up screen, header of the running
\* assessment): router.push('/')
Exit ==
  /\ Mounted /\ (validity = "invalid" \/ isStarted)
  /\ page' = "exited"
  /\ Discard
  /\ lastOp' = "exit"
  /\ navFrom' = None
  /\ lastAnswer' = None
  /\ returned' = <<>>
  /\ walk' = <<>>
  /\ UNCHANGED << assessment, server, now >>

-----------------------------------------------------------------------------
(* The interval and the clock *)

\* the interval calls updateTimer
Tick ==
  /\ Mounted /\ timer.armed /\ timer.elapsed >= TickMs
  /\ LET t == TimerEffect("interval", assessmentAttempt, View, timer)
         r == Commit(TimerEffectDeps(assessmentAttempt, isTimeUp),
                     assessmentAttempt, t.v, t.tm)
     IN /\ isTimeUp' = r.v.tu
        /\ timeRemaining' = r.v.tr
        /\ expiryFired' = r.v.fired
        /\ timer' = r.tm
  /\ lastOp' = "tick"
  /\ navFrom' = None
  /\ lastAnswer' = None
  /\ returned' = <<>>
  /\ walk' = <<>>
  /\ UNCHANGED << assessment, validity, assessmentAttempt, Nav, answers,
                  isStarted, Requests, page, server, now >>

Min(a, b) == IF a <= b THEN a ELSE b

\* time passes; the interval is due once TickMs have passed since its last call
AdvanceTime ==
  /\ \E t \in Instants :
       /\ t > now
       /\ now' = t
       /\ timer' = IF timer.armed
                     THEN [timer EXCEPT !.elapsed = Min(TickMs, timer.elapsed + (t - now))]
                     ELSE timer
  /\ lastOp' = "advance"
  /\ navFrom' = None
  /\ lastAnswer' = None
  /\ returned' = <<>>
  /\ walk' = <<>>
  /\ UNCHANGED << assessment, validity, assessmentAttempt, Nav, answers,
                  isStarted, timeRemaining, isTimeUp, expiryFired, Requests,
                  page, server >>

\* the client's wall clock is set back; the interval keeps its own schedule
ClockBack ==
  /\ \E t \in Instants : t < now /\ now' = t
  /\ lastOp' = "clockBack"
  /\ navFrom' = None
  /\ lastAnswer' = None
  /\ returned' = <<>>
  /\ walk' = <<>>
  /\ UNCHANGED << assessment, validity, assessmentAttempt, Nav, answers,
                  isStarted, TimerState, Requests, page, server >>

\* the page is loaded again: the component state starts afresh, the requests
\* of the old page are abandoned, the backend keeps the attempt
Reload ==
  /\ Discard
  /\ page' = "mounted"
  /\ lastOp' = "load"
  /\ navFrom' = None
  /\ lastAnswer' = None
  /\ returned' = <<>>
  /\ walk' = <<>>
  /\ UNCHANGED << assessment, server, now >>

-----------------------------------------------------------------------------

Next ==
  \/ ValidityOk
  \/ ValidityError
  \/ StartClick
  \/ StartOk
  \/ StartError
  \/ HandleAnswerChange
  \/ SaveOk
  \/ SaveError
  \/ NavigateToQuestion
  \/ HandleNext
  \/ HandlePrevious
  \/ SubmitClick
  \/ SubmitOk
  \/ SubmitError
  \/ Exit
  \/ Tick
  \/ AdvanceTime
  \/ ClockBack
  \/ Reload

Spec == Init /\ [][Next]_vars

\* The page on a client whose wall clock only moves forward.
ForwardNext ==
  \/ ValidityOk
  \/ ValidityError
  \/ StartClick
  \/ StartOk
  \/ StartError
  \/ HandleAnswerChange
  \/ SaveOk
  \/ SaveError
  \/ NavigateToQuestion
  \/ HandleNext
  \/ HandlePrevious
  \/ SubmitClick
  \/ SubmitOk
  \/ SubmitError
  \/ Exit
  \/ Tick
  \/ AdvanceTime
  \/ Reload

ForwardSpec == Init /\ [][ForwardNext]_vars

-----------------------------------------------------------------------------
(* The entry points of the session.  The handlers of a started session are  *)
(* called by any caller: navigateToQuestion with any pair of indices, and    *)
(* handleAnswerChange while earlier saveAnswers calls are still awaited.     *)

\* the assessments of this specification: untimed, two questions in two
\* sections, with and without an empty section between them
EngineAssessments ==
  { [a EXCEPT !.timed = FALSE, !.duration = 0] :
      a \in { b \in Assessments : TotalQuestionsOf(b) > 0 } }

\* the page after the link was found valid and a new attempt was started
EngineInit ==
  /\ assessment \in EngineAssessments
  /\ validity = "valid"
  /\ assessmentAttempt = AttemptFrom([startedAt |-> 0, attemptStatus |-> "NOT_STARTED"])
  /\ currentSectionIndex = 0
  /\ currentQuestionIndex = 0
  /\ answers = EmptyAnswers
  /\ isStarted = TRUE
  /\ timeRemaining = TimeNull
  /\ isTimeUp = FALSE
  /\ timer = Unarmed
  /\ startPending = FALSE
  /\ submitPending = FALSE
  /\ savesInFlight = <<>>
  /\ page = "mounted"
  /\ server = [started |-> TRUE, startedAt |-> 0, submitted |-> FALSE]
  /\ now = 0
  /\ expiryFired = 0
  /\ lastOp = "startOk"
  /\ navFrom = None
  /\ lastAnswer = None
  /\ returned = <<>>
  /\ walk = <<>>

\* the index pairs a caller may pass: those of the assessment and the ones
\* next to them on either side
JumpTargets == (-1..Len(assessment.sections)) \X (-1..1)

\* navigateToQuestion(sectionIndex, questionIndex) called with any indices
JumpTo ==
  /\ Mounted /\ isStarted
  /\ \E t \in JumpTargets :
       LET c == CursorAfterNavigate(Nav, isTimeUp, t[1], t[2])
       IN currentSectionIndex' = c[1] /\ currentQuestionIndex' = c[2]
  /\ lastOp' = "jumpTo"
  /\ navFrom' = Nav
  /\ lastAnswer' = None
  /\ returned' = <<>>
  /\ walk' = <<>>
  /\ UNCHANGED << assessment, validity, assessmentAttempt, answers, isStarted,
                  TimerState, Requests, page, server, now >>

\* the AssessmentAnswer values the handler is called with: those of the
\* question card and, for the first question, answers that carry both a
\* selection and a text field (blank, or null)
EngineAnswerInputs(q) ==
  AnswerInputs(q) \cup
    (IF q = "q1"
       THEN { Answer(q, <<"c1">>, Str(<<" ">>)), Answer(q, <<"c1">>, JsNull) }
       ELSE {})

\* handleAnswerChange called while earlier saves are in flight
AnswerWhileSaving == AnswerChange(MaxOverlap, EngineAnswerInputs(currentQuestion))

EngineNext ==
  \/ AnswerWhileSaving
  \/ SaveOk
  \/ SaveError
  \/ JumpTo
  \/ HandleNext
  \/ HandlePrevious

EngineSpec == EngineInit /\ [][EngineNext]_vars

-----------------------------------------------------------------------------
(* The cursor functions.  handleNext and handlePrevious are called in a row *)
(* from any question the sidebar can put the cursor on, in assessments     *)
(* whose sections have up to two questions.                                *)

CursorAssessments ==
  EngineAssessments \cup
    { [timed |-> FALSE, duration |-> 0,
       sections |-> << <<"q1", "q2">>, <<"q3">> >>],
      [timed |-> FALSE, duration |-> 0,
       sections |-> << <<"q1">>, <<"q2", "q3">> >>] }

\* a started session whose cursor the sidebar has put on one of its questions
CursorInit ==
  /\ assessment \in CursorAssessments
  /\ validity = "valid"
  /\ assessmentAttempt = AttemptFrom([startedAt |-> 0, attemptStatus |-> "NOT_STARTED"])
  /\ \E t \in SidebarTargets :
       currentSectionIndex = t[1] /\ currentQuestionIndex = t[2]
  /\ answers = EmptyAnswers
  /\ isStarted = TRUE
  /\ timeRemaining = TimeNull
  /\ isTimeUp = FALSE
  /\ timer = Unarmed
  /\ startPending = FALSE
  /\ submitPending = FALSE
  /\ savesInFlight = <<>>
  /\ page = "mounted"
  /\ server = [started |-> TRUE, startedAt |-> 0, submitted |-> FALSE]
  /\ now = 0
  /\ expiryFired = 0
  /\ lastOp = "jumpTo"
  /\ navFrom = <<0, 0>>
  /\ lastAnswer = None
  /\ returned = <<>>
  /\ walk = << [op |-> "start", at |-> Nav] >>

\* handleNext, as one more call of the walk
WalkNext == Len(walk) <= MaxWalk /\ NextCall(TRUE)

\* handlePrevious, as one more call of the walk
WalkPrevious == Len(walk) <= MaxWalk /\ PreviousCall(TRUE)

CursorNext ==
  \/ WalkNext
  \/ WalkPrevious

CursorSpec == CursorInit /\ [][CursorNext]_vars

-----------------------------------------------------------------------------
(* handleStartAssessment as an entry point.  The page offers the start     *)
(* button before the session only, when the store is still empty; here the *)
(* handler is also called on a started session that holds answers.         *)

\* handleStartAssessment called on a started session
StartAgain ==
  /\ Mounted /\ validity = "valid" /\ isStarted /\ ~startPending
  /\ startPending' = TRUE
  /\ lastOp' = "start"
  /\ navFrom' = None
  /\ lastAnswer' = None
  /\ returned' = <<>>
  /\ walk' = <<>>
  /\ UNCHANGED << assessment, validity, assessmentAttempt, Nav, answers,
                  isStarted, TimerState, submitPending, savesInFlight, page,
                  server, now >>

ResumeNext ==
  \/ HandleAnswerChange
  \/ SaveOk
  \/ SaveError
  \/ NavigateToQuestion
  \/ StartAgain
  \/ StartOk
  \/ StartError

ResumeSpec == EngineInit /\ [][ResumeNext]_vars

-----------------------------------------------------------------------------
(* Vocabulary of the properties *)

\* the ids of the questions of the assessment
QuestionIds == SeqRange(Flatten(assessment.sections))

\* every question of every section has a complete answer in the store
EveryQuestionComplete ==
  \A q \in QuestionIds : q \in DOMAIN answers /\ IsCompleteAnswer(answers[q])

\* the submit gate the page offers
canSubmit == allQuestionsAnswered /\ ~isTimeUp

\* the step stays within the session: the page is neither left nor loaded again
SameSession == lastOp' \notin {"load", "exit", "submitOk"}

\* the end of the attempt as the backend's startedAt fixes it
Deadline == server.startedAt + assessment.duration * 60 * 1000

\* the time limit of the running attempt is over on the wall clock
PastDeadline ==
  assessmentAttempt # None /\ assessment.timed /\ now >= Deadline

\* the step invokes submitAttempt
SubmitInvoked == submitPending' /\ ~submitPending

\* the step issues a saveAnswers call
SaveIssued == Len(savesInFlight') > Len(savesInFlight)

\* the questions whose entry in a store is complete
CompleteIds(store) == { q \in DOMAIN store : IsCompleteAnswer(store[q]) }

\* the complete answers of a store
CompleteSubset(store) == { store[q] : q \in CompleteIds(store) }

\* the step is an accepted answer(): the entry of the current question is set
\* and no other entry changes
StoreUpdated ==
  /\ DOMAIN answers' = DOMAIN answers \cup {currentQuestion}
  /\ answers'[currentQuestion] \in AnswerInputs(currentQuestion)
  /\ \A q \in DOMAIN answers : q # currentQuestion => answers'[q] = answers[q]

\* the payload of the saveAnswers call the step issues
IssuedPayload == savesInFlight'[Len(savesInFlight')]

\* the last question of the last section
LastPosition ==
  << Len(assessment.sections) - 1,
     Len(assessment.sections[Len(assessment.sections)]) - 1 >>

\* every section of the assessment has a question
NoEmptySection ==
  \A i \in 1..Len(assessment.sections) : Len(assessment.sections[i]) > 0

-----------------------------------------------------------------------------
(* C1..C10 *)

\* C1: canSubmit is true if and only if every question of every section has a
\* complete answer in the store and timeUp is false (stated for assessments
\* that have a question at all).
C1_CanSubmitIffAllComplete ==
  totalQuestions > 0 => (canSubmit <=> (EveryQuestionComplete /\ ~isTimeUp))

\* C2: a submit() made while not every question has a complete answer does not
\* invoke submitAttempt and leaves attempt, answers, cursor and timeUp as they are.
C2_SubmitRejectedWhenIncomplete ==
  [][(lastOp' = "submit" /\ ~EveryQuestionComplete)
       => (~SubmitInvoked
           /\ UNCHANGED <<assessmentAttempt, answers, Nav, isTimeUp>>)]_vars

\* C3: once timeUp is true it stays true for the rest of the session, whatever
\* handler, tick, request completion or clock change follows.
C3_TimeUpLatched ==
  [][(isTimeUp /\ SameSession) => isTimeUp']_vars

\* C3 witness: the time is up and the wall clock has since been set back to
\* before the end of the attempt.
C3_Witness ==
  isTimeUp /\ lastOp = "clockBack" /\ now < Deadline

\* C4: with timeUp true, handleAnswerChange leaves the answer store as it was
\* and issues no saveAnswers call.
C4_AnswerRejectedWhenTimeUp ==
  [][(lastOp' = "answer" /\ isTimeUp)
       => (answers' = answers /\ savesInFlight' = savesInFlight)]_vars

\* C4 witness: an answer was attempted on a question while the time was up.
C4_Witness ==
  isTimeUp /\ lastOp = "answer" /\ HasCurrentQuestion

\* C5: with timeUp true, next, previous and jumpTo leave the cursor unchanged.
C5_NavigationFrozenWhenTimeUp ==
  [][(lastOp' \in {"next", "previous", "jumpTo"} /\ isTimeUp)
       => UNCHANGED Nav]_vars

\* C5 witness: next was attempted with the time up at a position that has a
\* next question.
C5_Witness ==
  /\ isTimeUp /\ lastOp = "next"
  /\ Nav = <<0, 0>> /\ Len(assessment.sections) > 1

C7_AnswerRejectedPastDeadline ==
  [][(lastOp' = "answer" /\ PastDeadline)
       => (answers' = answers /\ ~SaveIssued)]_vars

\* C8: within a session the expiry event fires exactly once: timeUp is set and
\* the notice raised together, by the first tick that finds no time remaining,
\* and never again.
C8_ExpiryFiresOnce ==
  [][SameSession
       => /\ expiryFired' <= 1
          /\ (expiryFired' # expiryFired) <=> (isTimeUp' /\ ~isTimeUp)
          /\ (lastOp' = "tick" /\ ~isTimeUp /\ now >= timer.endTime)
               => (isTimeUp' /\ expiryFired' = 1)]_vars

\* C8 witness: a tick has fired the expiry event.
C8_Witness ==
  lastOp = "tick" /\ isTimeUp /\ expiryFired = 1

\* C9: a timed attempt started or resumed at now >= startedAt + duration is
\* expired by the first updateTimer call, the one made on arming.
C9_ExpiredOnArming ==
  (lastOp = "startOk" /\ assessment.timed /\ now >= Deadline)
    => (isTimeUp /\ timeRemaining = 0 /\ expiryFired = 1 /\ ~timer.armed)

\* C9 witness: an attempt started earlier has just been resumed past its end.
C9_Witness ==
  /\ lastOp = "startOk" /\ assessment.timed
  /\ assessmentAttempt.attemptStatus = "IN_PROGRESS"
  /\ now >= Deadline /\ isTimeUp

\* C10: the attempt held by the page carries the startedAt the backend
\* assigned, and an armed clock runs to startedAt + duration * 60 * 1000,
\* whatever the time of arming.
C10_StartedAtFromServer ==
  /\ assessmentAttempt # None
       => (server.started /\ assessmentAttempt.startedAt = server.startedAt)
  /\ timer.armed => timer.endTime = Deadline

\* C10 witness: a resumed attempt, armed later than it was started.
C10_Witness ==
  /\ timer.armed /\ lastOp = "startOk"
  /\ assessmentAttempt.attemptStatus = "IN_PROGRESS"
  /\ now > server.startedAt

-----------------------------------------------------------------------------
(* C11..C20 *)

\* C11: in every state of a started session on an assessment that has a
\* question, whatever next, previous and jumpTo calls were made, the cursor
\* names a section of the assessment and a question of that section (also when
\* the assessment has a section with no questions).
C11_CursorInBounds ==
  (isStarted /\ totalQuestions > 0) => HasCurrentQuestion

\* C12: previous() called with the cursor at (0,0) leaves it at (0,0), and
\* next() called with the cursor at the last question of the last section
\* leaves it there.
C12_BoundaryNoOp ==
  [][((lastOp' = "previous" /\ Nav = <<0, 0>>)
        \/ (lastOp' = "next" /\ HasCurrentQuestion /\ Nav = LastPosition))
       => UNCHANGED Nav]_vars

\* C12 witness: next was called at the last question of the last section of an
\* assessment with more than one position, while the time was not up.
C12_Witness ==
  /\ lastOp = "next" /\ ~isTimeUp /\ totalQuestions > 1
  /\ navFrom = LastPosition /\ HasCurrentQuestion

\* C13: jumpTo called with a section or question index out of range leaves
\* the cursor on a valid position (the nearest one), never on the indices it
\* was given (stated for assessments whose sections all have a question).
C13_JumpClamps ==
  [][(lastOp' = "jumpTo" /\ ~isTimeUp /\ NoEmptySection)
       => HasCurrentQuestion']_vars

\* C14: the answered count of the progress equals the number of questions
\* whose answer is complete; an entry that was set but left with blank text
\* and no selected choice counts for nothing.
C14_ProgressCountsComplete ==
  isStarted => answeredQuestions = Cardinality(CompleteIds(answers))

\* C15: the answered count of the progress never exceeds the total count, the
\* sum of the question counts of the sections; also right after the store was
\* seeded from the prior answers of a resumed attempt.
C15_AnsweredWithinTotal ==
  answeredQuestions <= totalQuestions

\* C15 witness: a resume has just seeded the store with an answer for every
\* question of the assessment.
C15_Witness ==
  /\ lastOp = "startOk" /\ totalQuestions > 1
  /\ answeredQuestions = totalQuestions

\* C16: every answer() made while timeUp is false updates the store and then
\* issues one saveAnswers call whose payload is the set of all complete
\* answers of the updated store, also when that set has become empty because
\* the edit cleared the only complete answer (an edit of a store that had no
\* complete answer and still has none is left out of the statement).
C16_EveryEditSavesCompleteSubset ==
  [][(lastOp' = "answer" /\ ~isTimeUp)
       => /\ StoreUpdated
          /\ (CompleteIds(answers) # {} \/ CompleteIds(answers') # {})
               => (SaveIssued /\ IssuedPayload = CompleteSubset(answers'))]_vars

\* C17: setAnswer(q, a) called twice in a row with the same value a leaves on
\* the second call the store as the first call left it, and sends on the
\* second call the same complete-answer subset as on the first (nothing, when
\* the first sent nothing).
C17_SetAnswerIdempotent ==
  [][(lastOp = "answer" /\ lastOp' = "answer" /\ ~isTimeUp
        /\ lastAnswer'.answer = lastAnswer.answer)
       => (answers' = answers /\ lastAnswer'.sent = lastAnswer.sent)]_vars

\* C17 witness: the second of two calls has just sent the payload the first
\* one sent, which is still in flight; the store holds the one entry they set.
C17_Witness ==
  /\ lastOp = "answer" /\ ~isTimeUp /\ Len(savesInFlight) = 2
  /\ savesInFlight[1] = savesInFlight[2]
  /\ lastAnswer.sent = {savesInFlight[2]}
  /\ DOMAIN answers = {currentQuestion}

\* C18: whatever happened to the saves issued before (one may have failed or
\* been dropped), every accepted answer() issues a save whose payload contains
\* the current answer of every question whose answer is complete, so the
\* answer a failed save carried is sent again by the next edit.
C18_NextEditResendsAll ==
  [][(lastOp' = "answer" /\ ~isTimeUp)
       => \A q \in CompleteIds(answers') :
            SaveIssued /\ answers'[q] \in IssuedPayload]_vars

\* C18 witness: a save has failed and the edit that followed, on another
\* question, has sent a payload that carries the complete answer of a
\* question the failed save was about.
C18_Witness ==
  /\ lastOp = "answer" /\ lastAnswer.afterSaveError /\ HasCurrentQuestion
  /\ \E q \in CompleteIds(answers) \ {currentQuestion} :
       \E p \in lastAnswer.sent : answers[q] \in p

\* C19: a failing saveAnswers call leaves the store (with the edit that
\* triggered it), the attempt, the cursor, timeUp and the started page as they
\* are, and the answer() made next is accepted like any other: it stores the
\* answer it is passed.
C19_SaveFailureNeverBlocks ==
  [][/\ lastOp' = "saveError"
          => UNCHANGED << answers, assessmentAttempt, Nav, isTimeUp, isStarted,
                          page, validity, submitPending >>
     /\ (lastOp = "saveError" /\ lastOp' = "answer" /\ ~isTimeUp)
          => (StoreUpdated /\ answers'[currentQuestion] = lastAnswer'.answer)]_vars

\* C19 witness: an answer() was made right after a save had failed and its
\* value is in the store.
C19_Witness ==
  /\ lastOp = "answer" /\ lastAnswer.afterSaveError /\ ~isTimeUp
  /\ HasCurrentQuestion /\ currentQuestion \in DOMAIN answers
  /\ answers[currentQuestion] = lastAnswer.answer

\* C20: a failing submitAttempt leaves the started session with its answers,
\* cursor, attempt and timeUp as they are and nothing in flight in its place
\* (submitAttempt is only ever invoked by a submit() of the trainee); a
\* submit() made next, with the time not up and a question shown, invokes
\* submitAttempt again; and the page is left as submitted only by the success
\* of a submitAttempt call.
C20_SubmitFailureKeepsSession ==
  [][/\ lastOp' = "submitError"
          => /\ UNCHANGED << answers, Nav, assessmentAttempt, isTimeUp,
                             isStarted, page, server >>
             /\ ~submitPending'
     /\ SubmitInvoked => lastOp' = "submit"
     /\ (lastOp = "submitError" /\ lastOp' = "submit"
           /\ ~isTimeUp /\ HasCurrentQuestion)
          => SubmitInvoked
     /\ (page' = "submitted" /\ page # "submitted")
          => (lastOp' = "submitOk" /\ submitPending)]_vars

\* C20 witness: a submitAttempt call has just failed in a session whose time
\* is not up; the page is still the started assessment, ready for a retry.
C20_Witness ==
  /\ lastOp = "submitError" /\ page = "mounted" /\ isStarted /\ ~isTimeUp
  /\ ~submitPending /\ HasCurrentQuestion /\ ~server.submitted

-----------------------------------------------------------------------------
(* C21..C30 *)

\* C21: a failing startOrResumeAttempt commits nothing: the attempt stays
\* absent, the store, the cursor and the clock are as they were, the page is
\* still not started with no interval armed, the backend holds what it held,
\* and no start is pending, so that the start button can be used again.
C21_StartFailureCommitsNothing ==
  [][lastOp' = "startError"
       => /\ UNCHANGED << assessmentAttempt, answers, Nav, isStarted,
                          timeRemaining, isTimeUp, timer, server >>
          /\ assessmentAttempt' = None /\ ~isStarted' /\ ~timer'.armed
          /\ page' = "mounted" /\ validity' = "valid" /\ ~startPending']_vars

\* C21 witness: a start has just failed on a valid link; the page is on its
\* start screen with no attempt.
C21_Witness ==
  /\ lastOp = "startError" /\ validity = "valid" /\ page = "mounted"
  /\ ~isStarted /\ assessmentAttempt = None /\ ~startPending

\* C22: startOrResumeAttempt is invoked only by the start button and only
\* when the validity check has reported the link valid; while the check is
\* pending or has failed no start is in flight, no attempt is held and the
\* page is not started; and the backend creates an attempt only for a page
\* whose link was found valid.
C22_StartOnlyOnValidLink ==
  [][/\ (startPending' /\ ~startPending)
          => (lastOp' = "start" /\ validity = "valid")
     /\ validity' # "valid"
          => (~startPending' /\ ~isStarted' /\ assessmentAttempt' = None)
     /\ (server'.started /\ ~server.started)
          => validity = "valid"]_vars

\* C22 witness: the validity check has reported the link invalid; nothing was
\* started and the backend holds no attempt.
C22_Witness ==
  /\ lastOp = "validityError" /\ validity = "invalid"
  /\ ~startPending /\ ~isStarted /\ ~server.started

\* C23 as stated: right after a successful start the session is in progress
\* (started, time not up), the server's attempt is held, the cursor is at
\* (0,0), and the interval is armed exactly when the assessment is timed.
C23_InProgressAfterStart ==
  lastOp = "startOk"
    => /\ isStarted /\ ~isTimeUp
       /\ assessmentAttempt # None
       /\ assessmentAttempt.startedAt = server.startedAt
       /\ Nav = <<0, 0>>
       /\ timer.armed <=> assessment.timed

\* C23, amended: right after a successful start the page is started, the
\* server's attempt is held and the cursor is at (0,0); the time is up
\* exactly when the assessment is timed and the attempt's deadline has
\* already passed, and the interval is armed exactly when the assessment is
\* timed and the deadline has not passed.
C23_StateAfterStart ==
  lastOp = "startOk"
    => /\ isStarted
       /\ assessmentAttempt # None
       /\ assessmentAttempt.startedAt = server.startedAt
       /\ Nav = <<0, 0>>
       /\ isTimeUp <=> (assessment.timed /\ now >= Deadline)
       /\ timer.armed <=> (assessment.timed /\ now < Deadline)

\* C23 witness: a new attempt of a timed assessment has just been started;
\* the session is in progress with the interval armed and the cursor on the
\* first question.
C23_Witness ==
  /\ lastOp = "startOk" /\ assessment.timed
  /\ assessmentAttempt.attemptStatus = "NOT_STARTED"
  /\ isStarted /\ ~isTimeUp /\ timer.armed /\ Nav = <<0, 0>>

\* the ids of the choice objects of a returned answer, in their order; none
\* when the answer has no selectedChoices
ReturnedChoiceIds(saved) ==
  IF saved.selectedChoices = None
    THEN <<>>
    ELSE [i \in 1..Len(saved.selectedChoices.items) |->
            saved.selectedChoices.items[i].id]

\* C24: after a successful start, every answer the backend returned is in the
\* store under its question id, in the page's shape: selectedChoiceIds are
\* the ids of its selectedChoices in the same order (none when
\* selectedChoices is absent), and a non-empty textAnswer is carried over.
C24_RestoreTranslatesShape ==
  lastOp = "startOk"
    => \A i \in 1..Len(returned) :
         LET saved == returned[i]
             q == saved.assessmentEntryId
         IN /\ q \in DOMAIN answers
            /\ answers[q].assessmentEntryId = q
            /\ answers[q].selectedChoiceIds = ReturnedChoiceIds(saved)
            /\ (saved.textAnswer \notin {JsNull, Undefined, Str(<<>>)})
                 => answers[q].textAnswer = saved.textAnswer

\* C24 witness: a resume has returned an answer with two choice objects and
\* an answer with a text and no selectedChoices; the store holds the ids
\* "c1", "c2" under the first question and the text under the last.
C24_Witness ==
  /\ lastOp = "startOk" /\ Len(returned) = 2
  /\ returned[1].selectedChoices = Choices(<<Choice("c1"), Choice("c2")>>)
  /\ returned[2].selectedChoices = None
  /\ answers["q1"].selectedChoiceIds = <<"c1", "c2">>
  /\ answers["q2"].selectedChoiceIds = <<>>
  /\ answers["q2"].textAnswer = Str(<<"a">>)

\* the answer carries free text
CarriesText(ans) == ans.textAnswer # Undefined /\ ans.textAnswer # JsNull

\* the text that is left of the answer's text without its leading and
\* trailing blanks
TextWithoutBlanks(ans) ==
  LET cs == ans.textAnswer.chars
      ix == { i \in 1..Len(cs) : cs[i] # " " }
  IN IF ix = {} THEN <<>>
     ELSE SubSeq(cs, CHOOSE i \in ix : \A j \in ix : i <= j,
                     CHOOSE i \in ix : \A j \in ix : j <= i)

\* the completeness rule: by the text when the answer carries one, by the
\* selection otherwise
StructurallyComplete(ans) ==
  IF CarriesText(ans)
    THEN TextWithoutBlanks(ans) # <<>>
    ELSE ans.selectedChoiceIds # <<>>

\* C25: the filter of handleAnswerChange keeps an answer exactly when it is
\* complete by the structural rule: in the payload a call sends, a stored
\* answer with a text field (neither undefined nor null) is present iff its
\* trimmed text is non-empty, whatever it has selected, and any other stored
\* answer iff it has a selection; when the call sends nothing, no stored
\* answer is complete by that rule.
C25_CompletenessIsStructural ==
  lastOp = "answer"
    => /\ \A p \in lastAnswer.sent :
            \A q \in DOMAIN answers :
              (answers[q] \in p) <=> StructurallyComplete(answers[q])
       /\ lastAnswer.sent = {}
            => \A q \in DOMAIN answers : ~StructurallyComplete(answers[q])

\* C25 witness: the first question was just answered with a selection and a
\* blank text, the text answer of the other question is stored, and the
\* payload sent holds the text answer and not the blank one.
C25_Witness ==
  /\ lastOp = "answer"
  /\ lastAnswer.answer = Answer("q1", <<"c1">>, Str(<<" ">>))
  /\ "q2" \in DOMAIN answers /\ "q1" \in DOMAIN answers
  /\ lastAnswer.sent = {{answers["q2"]}}
  /\ answers["q1"] = lastAnswer.answer

\* C26: a call of handleAnswerChange that is accepted replaces the entry of
\* the current question by the answer it was passed, field for field, leaves
\* the entries of the other questions as they were, and changes neither the
\* cursor nor the attempt nor isTimeUp.
C26_AnswerReplacesEntry ==
  [][(lastOp' = "answer" /\ ~isTimeUp)
       => /\ DOMAIN answers' = DOMAIN answers \cup {currentQuestion}
          /\ answers'[currentQuestion] = lastAnswer'.answer
          /\ \A q \in DOMAIN answers :
               q # currentQuestion => answers'[q] = answers[q]
          /\ UNCHANGED << Nav, assessmentAttempt, isTimeUp >>]_vars

\* C26 witness: the first question held a selection with a null text (a save
\* in flight still carries that entry) and was answered again with neither
\* selection nor text; the store holds the new answer as it was passed, next
\* to the answer of the other question.
C26_Witness ==
  /\ lastOp = "answer"
  /\ lastAnswer.answer = Answer("q1", <<>>, Undefined)
  /\ \E i \in 1..Len(savesInFlight) :
       Answer("q1", <<"c1">>, JsNull) \in savesInFlight[i]
  /\ "q2" \in DOMAIN answers
  /\ answers["q1"] = lastAnswer.answer

\* C27: while the assessment is not timed, or no attempt is held, the time
\* is never up, timeRemaining is null and no interval is armed.
C27_ClockOnlyWhenTimedAndStarted ==
  (~assessment.timed \/ assessmentAttempt = None)
    => (~isTimeUp /\ timeRemaining = TimeNull /\ ~timer.armed)

\* C27 witness: an attempt of an assessment that is not timed is held a
\* minute after its start; no clock runs and the time is not up.
C27_Witness ==
  /\ ~assessment.timed /\ assessmentAttempt # None /\ isStarted
  /\ now >= assessmentAttempt.startedAt + MsPerMinute
  /\ ~isTimeUp /\ timeRemaining = TimeNull /\ ~timer.armed

\* C28: while the wall clock moves forward, every call of updateTimer by the
\* interval leaves timeRemaining equal to the remaining milliseconds
\* max(0, deadline - now) rounded up to whole seconds: it is not negative,
\* not more than duration * 60, and not more than before the call.
C28_RemainingSeconds ==
  [][lastOp' = "tick"
       => LET remaining == IF Deadline - now > 0 THEN Deadline - now ELSE 0
          IN /\ timeRemaining' * 1000 >= remaining
             /\ (timeRemaining' - 1) * 1000 < remaining
             /\ timeRemaining' >= 0
             /\ timeRemaining' <= assessment.duration * 60
             /\ timeRemaining # TimeNull => timeRemaining' <= timeRemaining
    ]_vars

\* C28 witness: the interval has just run half a second before the end of
\* the attempt; the 500 ms that remain show as one second.
C28_Witness ==
  /\ lastOp = "tick" /\ timer.armed /\ ~isTimeUp
  /\ Deadline - now = 500
  /\ timeRemaining = 1

\* C29: at no time is more than one interval of the timer effect active,
\* and none is active once the time is up, once the page has been left (after
\* a successful submit or by the exit), or while no attempt is held, as after
\* the component was torn down and loaded again.
C29_NoIntervalOutlivesSession ==
  /\ timer.intervals <= 1
  /\ (isTimeUp \/ page # "mounted" \/ assessmentAttempt = None)
       => (timer.intervals = 0 /\ ~timer.armed)

\* C29 witness: the interval has just found the time over; it was cleared
\* when the effect ran again, and nothing is armed.
C29_Witness ==
  /\ lastOp = "tick" /\ isTimeUp /\ expiryFired = 1
  /\ timer.intervals = 0 /\ ~timer.armed

\* C30: a call of handleAnswerChange made while earlier saves are in flight
\* stores the answer it was passed and loses nothing: every other entry of
\* the store stays, and every answer that an in-flight save carries and the
\* store still holds for another question is in the payload the call sends;
\* the completion or failure of a save leaves the store as it is.
C30_OverlappingEditsKeepBoth ==
  [][/\ (lastOp' = "answer" /\ savesInFlight # <<>>)
          => /\ answers'[currentQuestion] = lastAnswer'.answer
             /\ \A q \in DOMAIN answers \ {currentQuestion} :
                  q \in DOMAIN answers' /\ answers'[q] = answers[q]
             /\ \A i \in 1..Len(savesInFlight) : \A a \in savesInFlight[i] :
                  ( /\ a.assessmentEntryId # currentQuestion
                    /\ a.assessmentEntryId \in DOMAIN answers
                    /\ answers[a.assessmentEntryId] = a )
                    => /\ lastAnswer'.sent # {}
                       /\ \A p \in lastAnswer'.sent : a \in p
     /\ lastOp' \in {"saveOk", "saveError"} => answers' = answers]_vars

\* C30 witness: the save of the first question's answer is in flight alone
\* when the second question is answered; the store holds both answers and
\* the second payload carries both.
C30_Witness ==
  /\ lastOp = "answer" /\ Len(savesInFlight) = 2
  /\ lastAnswer.answer.assessmentEntryId = "q2"
  /\ savesInFlight[1] = {Answer("q1", <<"c1">>, Undefined)}
  /\ answers["q1"] = Answer("q1", <<"c1">>, Undefined)
  /\ answers["q2"] = lastAnswer.answer
  /\ savesInFlight[2] = {answers["q1"], answers["q2"]}

-----------------------------------------------------------------------------
(* C31..C35 *)

\* the (section, question) positions of the assessment
Positions ==
  { <<s, q>> \in (0..Len(assessment.sections) - 1) \X (0..2) :
      q < Len(assessment.sections[s + 1]) }

\* position p comes before position r: an earlier section, or the same
\* section and an earlier question
Before(p, r) == p[1] < r[1] \/ (p[1] = r[1] /\ p[2] < r[2])

\* the place of position p in that order, counted from 1
Rank(p) == Cardinality({ r \in Positions : Before(r, p) }) + 1

\* the walk is a row of handleNext calls that started at (0,0)
NextOnlyFromStart ==
  /\ walk # <<>> /\ walk[1].at = <<0, 0>>
  /\ \A k \in 2..Len(walk) : walk[k].op = "next"

\* C31: in an assessment whose sections all have a question, the cursor
\* after k - 1 calls of handleNext from (0,0) is the k-th position in section
\* order and then question order, for k up to the number of questions, and
\* the last position on every call after that: each position is visited
\* once, in order, the last one after totalQuestions - 1 calls.
C31_NextWalksInOrder ==
  (NoEmptySection /\ NextOnlyFromStart)
    => \A k \in 1..Len(walk) :
         /\ walk[k].at \in Positions
         /\ Rank(walk[k].at) = Min(k, totalQuestions)

\* C31 witness: in the assessment with sections [q1, q2] and [q3], four calls
\* of handleNext from (0,0) went to (0,1) and (1,0) and stayed there twice.
C31_Witness ==
  /\ NoEmptySection /\ NextOnlyFromStart /\ totalQuestions = 3
  /\ Len(assessment.sections[1]) = 2
  /\ Len(walk) = 5
  /\ walk[2].at = <<0, 1>> /\ walk[3].at = <<1, 0>>
  /\ walk[4].at = <<1, 0>> /\ walk[5].at = <<1, 0>>
  /\ Nav = <<1, 0>>

\* C32: in a row of calls that starts on a question, handleNext followed by
\* handlePrevious from a question that is not the last one overall ends on
\* that question, and handlePrevious followed by handleNext from a question
\* other than (0,0) ends on that question.
C32_NextPreviousInverse ==
  \A k \in 1..Len(walk) - 2 :
    LET p == walk[k].at IN
    p \in Positions
      => /\ ( /\ walk[k + 1].op = "next" /\ walk[k + 2].op = "previous"
              /\ Rank(p) # totalQuestions )
              => walk[k + 2].at = p
         /\ ( /\ walk[k + 1].op = "previous" /\ walk[k + 2].op = "next"
              /\ p # <<0, 0>> )
              => walk[k + 2].at = p

\* C32 witness: in the assessment with sections [q1, q2] and [q3], handleNext
\* from (0,1) entered the second section and handlePrevious came back to
\* (0,1); then handlePrevious went to (0,0) and handleNext came back again.
C32_Witness ==
  /\ Len(assessment.sections[1]) = 2 /\ Len(walk) = 5
  /\ walk[1].at = <<0, 1>>
  /\ walk[2] = [op |-> "next", at |-> <<1, 0>>]
  /\ walk[3] = [op |-> "previous", at |-> <<0, 1>>]
  /\ walk[4] = [op |-> "previous", at |-> <<0, 0>>]
  /\ walk[5] = [op |-> "next", at |-> <<0, 1>>]

\* C33: the countdown shows 0 exactly when the time is up: after a call of
\* updateTimer, and in every state between the calls, timeRemaining = 0 iff
\* isTimeUp.
C33_ZeroIffTimeUp ==
  (timeRemaining = 0) <=> isTimeUp

\* C33 witness: the interval has just run at the very end of the attempt; the
\* countdown shows 0 and the time is up.
C33_Witness ==
  /\ lastOp = "tick" /\ now = Deadline
  /\ timeRemaining = 0 /\ isTimeUp

\* a returned answer in the shape of the page
Translated(saved) ==
  Answer(saved.assessmentEntryId,
         ReturnedChoiceIds(saved),
         IF saved.textAnswer \in {JsNull, Undefined, Str(<<>>)}
           THEN Undefined ELSE saved.textAnswer)

\* C34: a successful start that returns prior answers leaves in the store
\* exactly the translated prior answers, one entry per returned question id
\* and no entry the store held before; a successful start that returns none
\* leaves the store as it was.
C34_RestoreReplacesStore ==
  [][lastOp' = "startOk"
       => IF returned' # <<>>
            THEN /\ DOMAIN answers' =
                      { returned'[i].assessmentEntryId : i \in 1..Len(returned') }
                 /\ \A i \in 1..Len(returned') :
                      answers'[returned'[i].assessmentEntryId]
                        = Translated(returned'[i])
            ELSE answers' = answers]_vars

\* C34 witness: the store held an answer of the second question (a save in
\* flight carries it) when a start returned one prior answer, of the first
\* question; the store holds that answer and nothing else.
C34_Witness ==
  /\ lastOp = "startOk" /\ Len(returned) = 1
  /\ returned[1].assessmentEntryId = "q1"
  /\ \E i \in 1..Len(savesInFlight) :
       \E a \in savesInFlight[i] : a.assessmentEntryId = "q2"
  /\ DOMAIN answers = {"q1"}
  /\ answers["q1"] = Translated(returned[1])

\* C35: for an assessment without any question the submit gate is closed in
\* every state the page reaches: canSubmit is false, no submitAttempt call is
\* in flight and none has succeeded.
C35_NoSubmitWithoutQuestions ==
  totalQuestions = 0
    => /\ ~canSubmit
       /\ ~submitPending /\ page # "submitted" /\ ~server.submitted

\* C35 witness: the session of an assessment whose only section is empty has
\* been started and the submit was tried; nothing was sent.
C35_Witness ==
  /\ totalQuestions = 0 /\ isStarted /\ ~isTimeUp
  /\ lastOp = "submit" /\ ~submitPending

=============================================================================
